---- MODULE Spec2Model ----
(***************************************************************************)
(* Model of src/main.py: the TeslaFi firmware poller.  One run of          *)
(* check_teslafi fetches the firmware page, finds the first table row      *)
(* whose first cell looks like a version, sums the installed and pending   *)
(* cells, compares the observation with memory.json and alerts through     *)
(* send_telegram.                                                          *)
(*                                                                         *)
(* A text (Python str) is a sequence of one-character strings; "sup2"      *)
(* stands for the character U+00B2 (superscript two), for which            *)
(* str.isdigit() is True and int() raises ValueError.  A table row is the  *)
(* sequence of the texts of its <td> cells, a page the sequence of its     *)
(* rows.  A dict is a function from keys to values.                        *)
(***************************************************************************)
EXTENDS Integers, Sequences, FiniteSets, TLC

VARIABLES page, file_exists, file_data, run, alerts, alerted_count, page_seen

vars == <<page, file_exists, file_data, run, alerts, alerted_count, page_seen>>

\* ------------------------------------------------------------------ texts

WAVE_THRESHOLD == 5

MaxVersionLen == 25

Decimals == {"0", "1", "2", "3", "4", "5", "6", "7", "8", "9"}

DigitVal(c) ==
    CASE c = "0" -> 0 [] c = "1" -> 1 [] c = "2" -> 2 [] c = "3" -> 3
      [] c = "4" -> 4 [] c = "5" -> 5 [] c = "6" -> 6 [] c = "7" -> 7
      [] c = "8" -> 8 [] c = "9" -> 9

IsSpace(c) == c = " "

RECURSIVE lstrip(_)
lstrip(t) == IF t # <<>> /\ IsSpace(Head(t)) THEN lstrip(Tail(t)) ELSE t

RECURSIVE rstrip(_)
rstrip(t) ==
    IF t # <<>> /\ IsSpace(t[Len(t)]) THEN rstrip(SubSeq(t, 1, Len(t) - 1)) ELSE t

\* str.strip()
strip(t) == rstrip(lstrip(t))

\* str.replace(",", "")
replace_commas(t) == SelectSeq(t, LAMBDA c : c # ",")

\* str.isdigit(): non-empty and every character a digit (superscripts included)
isdigit(t) == t # <<>> /\ \A i \in 1..Len(t) : t[i] \in Decimals \cup {"sup2"}

RECURSIVE DecimalValue(_)
DecimalValue(ds) ==
    IF ds = <<>> THEN 0
    ELSE 10 * DecimalValue(SubSeq(ds, 1, Len(ds) - 1)) + DigitVal(ds[Len(ds)])

\* int(s) of a str: surrounding whitespace dropped, an optional sign, then
\* decimal digits with single underscores between digits; anything else
\* raises ValueError.
int(t) ==
    LET s      == strip(t)
        signed == s # <<>> /\ s[1] \in {"-", "+"}
        body   == IF signed THEN Tail(s) ELSE s
        valid  == /\ body # <<>>
                  /\ \A i \in 1..Len(body) :
                        \/ body[i] \in Decimals
                        \/ /\ body[i] = "_"
                           /\ 1 < i /\ i < Len(body)
                           /\ body[i - 1] \in Decimals
                           /\ body[i + 1] \in Decimals
        mag    == DecimalValue(SelectSeq(body, LAMBDA c : c \in Decimals))
    IN  IF valid
        THEN [raised |-> FALSE, value |-> IF s[1] = "-" THEN 0 - mag ELSE mag]
        ELSE [raised |-> TRUE, value |-> 0]

\* int(text or 0): the empty str is falsy, so int(0) = 0
int_or_0(t) == IF t = <<>> THEN [raised |-> FALSE, value |-> 0] ELSE int(t)

\* ------------------------------------------------------------- row parser

\* text.startswith("20") and "." in text and len(text) < 25
IsVersion(text) ==
    /\ Len(text) >= 2 /\ text[1] = "2" /\ text[2] = "0"
    /\ \E i \in 1..Len(text) : text[i] = "."
    /\ Len(text) < MaxVersionLen

\* Index of the first row with cells whose first cell is a version, 0 if none
RECURSIVE FindRowFrom(_, _)
FindRowFrom(pg, i) ==
    IF i > Len(pg) THEN 0
    ELSE IF pg[i] # <<>> /\ IsVersion(strip(pg[i][1])) THEN i
    ELSE FindRowFrom(pg, i + 1)

\* Variant of FindRow: the first row with cells, whatever its first cell
RECURSIVE FirstRowWithCells(_, _)
FirstRowWithCells(pg, i) ==
    IF i > Len(pg) THEN 0
    ELSE IF pg[i] # <<>> THEN i
    ELSE FirstRowWithCells(pg, i + 1)

FindRow_any_cells(pg) == FirstRowWithCells(pg, 1)

FindRow(pg) == FindRowFrom(pg, 1)

\* Variant of ParseCount: a bad installed cell counts as 0 and the pending
\* cell is still added
ParseCount_bad_installed_as_0(cols) ==
    IF Len(cols) < 2 THEN [error |-> TRUE, count |-> 0]
    ELSE
      LET installed == int_or_0(replace_commas(strip(cols[2])))
      IN  IF Len(cols) < 4 THEN [error |-> TRUE, count |-> 0]
          ELSE
            LET pending_text == replace_commas(strip(cols[4]))
                pending == IF isdigit(pending_text) THEN int(pending_text)
                           ELSE [raised |-> FALSE, value |-> 0]
            IN  IF pending.raised THEN [error |-> TRUE, count |-> 0]
                ELSE [error |-> installed.raised,
                      count |-> installed.value + pending.value]

\* The try block: cols[1] and cols[3] raise IndexError on a short row, int()
\* raises ValueError; every exception sets current_count = 0.
ParseCount(cols) ==
    IF Len(cols) < 2 THEN [error |-> TRUE, count |-> 0]
    ELSE
      LET installed == int_or_0(replace_commas(strip(cols[2])))
      IN  IF installed.raised THEN [error |-> TRUE, count |-> 0]
          ELSE IF Len(cols) < 4 THEN [error |-> TRUE, count |-> 0]
          ELSE
            LET pending_text == replace_commas(strip(cols[4]))
                pending == IF isdigit(pending_text) THEN int(pending_text)
                           ELSE [raised |-> FALSE, value |-> 0]
            IN  IF pending.raised THEN [error |-> TRUE, count |-> 0]
                ELSE [error |-> FALSE, count |-> installed.value + pending.value]

\* ------------------------------------------------------------ state store

\* The str "None", the default of memory.get("last_version", "None")
NoneText == <<"N", "o", "n", "e">>

\* latest_version = None before a row is accepted (falsy, like the empty str)
NoVersion == <<>>

EmptyDict == [k \in {} |-> 0]

\* memory.get(key, default)
dict_get(memory, key, default) ==
    IF key \in DOMAIN memory THEN memory[key] ELSE default

\* memory[key] = value
dict_set(memory, key, value) ==
    [k \in DOMAIN memory \cup {key} |-> IF k = key THEN value ELSE memory[k]]

\* load_memory(): the parsed file if it exists, else {}
load_memory == IF file_exists THEN file_data ELSE EmptyDict

\* ---------------------------------------------------------------- notifier

\* Variant of send_telegram: no try/except around requests.post
send_telegram_uncaught(message, has_token, has_chat, post_ok) ==
    IF ~has_token \/ ~has_chat THEN [raised |-> FALSE, result |-> "skipped"]
    ELSE IF post_ok THEN [raised |-> FALSE, result |-> "posted"]
    ELSE [raised |-> TRUE, result |-> "failed"]

\* send_telegram(message): returns without posting when a credential is
\* missing; an exception of requests.post is caught and printed.
send_telegram(message, has_token, has_chat, post_ok) ==
    IF ~has_token \/ ~has_chat THEN [raised |-> FALSE, result |-> "skipped"]
    ELSE IF post_ok THEN [raised |-> FALSE, result |-> "posted"]
    ELSE [raised |-> FALSE, result |-> "failed"]

\* -------------------------------------------------------------- comparator

\* SCENARIO 1: latest_version != last_version
IsNewBuild(latest_version, last_version) == latest_version # last_version

\* Variant of IsWave: a strict comparison, so a jump of exactly the threshold
\* is no wave
IsWave_strict(current_count, last_count) == current_count > last_count + WAVE_THRESHOLD

\* SCENARIO 2: current_count >= last_count + WAVE_THRESHOLD
IsWave(current_count, last_count) == current_count >= last_count + WAVE_THRESHOLD

\* Variant of Scenario: the wave check comes before the version check
Scenario_wave_first(latest_version, current_count, last_version, last_count) ==
    IF current_count >= last_count + WAVE_THRESHOLD THEN "wave"
    ELSE IF latest_version # last_version THEN "new_build"
    ELSE "no_change"

\* The if / elif / else of the decision tree, in its order
Scenario(latest_version, current_count, last_version, last_count) ==
    IF IsNewBuild(latest_version, last_version) THEN "new_build"
    ELSE IF IsWave(current_count, last_count) THEN "wave"
    ELSE "no_change"

\* The "New Build" message: the version and the count
NewBuildMessage(latest_version, current_count) ==
    [kind |-> "new_build", version |-> latest_version, n |-> current_count]

\* The "new wave" message: the version and diff = current_count - last_count
WaveMessage(latest_version, current_count, last_count) ==
    [kind |-> "wave", version |-> latest_version, n |-> current_count - last_count]

\* What each branch hands to save_memory
NewBuildMemory(memory, latest_version, current_count) ==
    dict_set(dict_set(memory, "last_version", latest_version), "last_count", current_count)

\* Variant of WaveMemory: the wave branch leaves last_count as it was
WaveMemory_unsaved(memory, current_count) == memory

WaveMemory(memory, current_count) == dict_set(memory, "last_count", current_count)

\* Variant of NoChangeMemory: small changes are not saved
NoChangeMemory_unsaved(memory, current_count) == memory

NoChangeMemory(memory, current_count) == dict_set(memory, "last_count", current_count)

\* COMPARE WITH MEMORY and the DECISION TREE on (latest_version,
\* current_count): what was read, the scenario, the send_telegram call made
\* and the dict given to save_memory.
Decide(latest_version, current_count, has_token, has_chat, post_ok) ==
    LET memory       == load_memory
        last_version == dict_get(memory, "last_version", NoneText)
        last_count   == dict_get(memory, "last_count", 0)
        scenario     == Scenario(latest_version, current_count, last_version, last_count)
        msg  == IF scenario = "new_build"
                THEN NewBuildMessage(latest_version, current_count)
                ELSE WaveMessage(latest_version, current_count, last_count)
        sent == send_telegram(msg, has_token, has_chat, post_ok)
    IN  [scenario     |-> scenario,
         last_version |-> last_version,
         last_count   |-> last_count,
         calls  |-> IF scenario = "no_change" THEN <<>>
                    ELSE <<[message |-> msg, result |-> sent.result]>>,
         raised |-> scenario # "no_change" /\ sent.raised,
         memory |-> CASE scenario = "new_build" ->
                            NewBuildMemory(memory, latest_version, current_count)
                      [] scenario = "wave" -> WaveMemory(memory, current_count)
                      [] scenario = "no_change" -> NoChangeMemory(memory, current_count)]

\* ------------------------------------------------------------------- runs

\* What the last run did (its prints): where it ended, what it observed and
\* what it read from memory.json.  repeat: the run before it fetched the same
\* page, which the site had not changed since.
Idle ==
    [step |-> "idle", latest_version |-> NoVersion, current_count |-> 0,
     parse_error |-> FALSE, last_version |-> NoVersion, last_count |-> 0,
     scenario |-> "none", repeat |-> FALSE]

\* The early returns: nothing is sent, memory.json is neither read nor written
Abort(step) ==
    /\ run' = [Idle EXCEPT !.step = step, !.repeat = page_seen]
    /\ alerts' = <<>>
    /\ UNCHANGED <<file_exists, file_data, alerted_count>>

\* One whole run of check_teslafi.  fetch_ok: requests.get returned and
\* raise_for_status passed; has_token, has_chat: TELEGRAM_TOKEN and CHAT_ID are
\* set in the process environment; post_ok: requests.post did not raise.
check_teslafi(fetch_ok, has_token, has_chat, post_ok) ==
    /\ UNCHANGED page
    /\ page_seen' = fetch_ok
    /\ IF ~fetch_ok THEN Abort("connection_error")
       ELSE
         LET i == FindRow(page) IN
         IF i = 0 THEN Abort("no_version")
         ELSE
           LET cols           == page[i]
               latest_version == strip(cols[1])
               parsed         == ParseCount(cols)
               current_count  == parsed.count
               d == Decide(latest_version, current_count, has_token, has_chat, post_ok)
           IN  /\ run' = [step |-> IF d.raised THEN "raised" ELSE "done",
                          latest_version |-> latest_version,
                          current_count |-> current_count,
                          parse_error |-> parsed.error,
                          last_version |-> d.last_version,
                          last_count |-> d.last_count,
                          scenario |-> d.scenario,
                          repeat |-> page_seen]
               /\ alerts' = d.calls
               /\ alerted_count' =
                     IF d.calls # <<>> THEN current_count ELSE alerted_count
               /\ IF d.raised
                  THEN UNCHANGED <<file_exists, file_data>>
                  ELSE /\ file_exists' = TRUE
                       /\ file_data' = d.memory

Run ==
    \E fetch_ok \in BOOLEAN, has_token \in BOOLEAN, has_chat \in BOOLEAN,
       post_ok \in BOOLEAN :
        check_teslafi(fetch_ok, has_token, has_chat, post_ok)

\* ------------------------------------------------------------------ pages

MaxSkipped == 4

V1 == <<"2", "0", "2", "5", ".", "2">>
V2 == <<"2", "0", "2", "5", ".", "8">>
Versions == {V1, V2}

Percent == <<"5", "6", ".", "1", "%">>

InstalledTexts == {<<>>, <<"2">>, <<"-", "3">>, <<"x">>}
PendingTexts == {<<>>, <<"5">>}

\* Rows of four cells, and a row that stops after the installed cell
DataRows ==
    {<<V1, inst, Percent, pend>> : inst \in InstalledTexts, pend \in PendingTexts}
    \cup {<<V2, <<"2">>, Percent, pend>> : pend \in PendingTexts}
    \cup {<<V1, <<"2">>>>}

\* "20......": starts with "20", has a dot, and is MaxVersionLen characters long
LongText == [k \in 1..MaxVersionLen |-> IF k = 1 THEN "2" ELSE IF k = 2 THEN "0" ELSE "."]

\* Rows the scan passes over: no <td> at all, a header, a first cell that
\* starts with "20" but has no dot, and one of MaxVersionLen characters.
HeaderRow(k) ==
    CASE k % 4 = 1 -> <<>>
      [] k % 4 = 2 -> <<<<"V", "e", "r", "s", "i", "o", "n">>,
                        <<"I", "n", "s", "t", "a", "l", "l", "s">>>>
      [] k % 4 = 3 -> <<<<"2", "0", "2", "5">>, <<"9">>, Percent, <<"9">>>>
      [] k % 4 = 0 -> <<LongText, <<"9">>, Percent, <<"9">>>>

\* The pages with no version row: 0..MaxSkipped rows that the scan passes over
Prefixes == {[k \in 1..n |-> HeaderRow(k)] : n \in 0..MaxSkipped}

\* Two data rows that follow skipped rows; their cells carry blanks and commas
RowA == <<<<" ", "2", "0", "2", "5", ".", "2", " ">>, <<" ", "7", " ">>, Percent, <<"5", " ">>>>
RowB == <<V2, <<"1", ",", "2">>, <<"9">>, <<"x">>>>

Pages ==
    Prefixes
    \cup {<<r>> : r \in DataRows}
    \cup {pre \o rows : pre \in Prefixes \ {<<>>}, rows \in {<<RowA, RowB>>, <<RowB, RowA>>}}

\* The site publishes another page
PageChange ==
    /\ page' \in Pages \ {page}
    /\ page_seen' = FALSE
    /\ UNCHANGED <<file_exists, file_data, run, alerts, alerted_count>>

Init ==
    /\ page \in Pages
    /\ file_exists = FALSE
    /\ file_data = EmptyDict
    /\ run = Idle
    /\ alerts = <<>>
    /\ alerted_count = 0
    /\ page_seen = FALSE

Next == Run \/ PageChange

Spec == Init /\ [][Next]_vars

\* ------------------------------------------------- the row parser alone

MaxLen == 2

RECURSIVE SeqsUpTo(_, _)
SeqsUpTo(S, n) ==
    IF n = 0 THEN {<<>>}
    ELSE LET shorter == SeqsUpTo(S, n - 1)
         IN  shorter \cup {Append(q, x) : q \in shorter, x \in S}

\* Every installed text of at most MaxLen characters over these characters,
\* and some longer ones: "1,1", ", 1", "1 1", "-1,1", "1_1", "+11"
ParseChars == {"1", ",", "-", " ", "x"}
InstalledParseTexts ==
    SeqsUpTo(ParseChars, MaxLen)
    \cup {<<"1", ",", "1">>, <<",", " ", "1">>, <<"1", " ", "1">>,
          <<"-", "1", ",", "1">>, <<"1", "_", "1">>, <<"+", "1", "1">>}

PendingParseTexts == {<<>>, <<"1">>, <<"x">>, <<"-", "1">>, <<"sup2">>, <<"1", ",", "1">>}

\* Rows of four cells (one group with a percent cell that reads as a number),
\* rows that stop after the installed cell, and a row of the version alone
ParseRows ==
    {<<V1, inst, Percent, pend>> :
        inst \in InstalledParseTexts, pend \in PendingParseTexts}
    \cup {<<V1, <<"1">>, <<"9">>, pend>> : pend \in PendingParseTexts}
    \cup {<<V1, inst>> : inst \in InstalledParseTexts}
    \cup {<<V1>>}

ParsePages == {<<r>> : r \in ParseRows}

\* A page of one version row, and a memory.json that earlier runs left: none,
\* or V1 with a count an earlier page gave ("-11" and "11" are such texts).
InitParse ==
    /\ page \in ParsePages
    /\ \/ /\ file_exists = FALSE
          /\ file_data = EmptyDict
          /\ alerted_count = 0
       \/ \E c \in {0 - 11, 11} :
            /\ file_exists = TRUE
            /\ file_data = NewBuildMemory(EmptyDict, V1, c)
            /\ alerted_count = c
    /\ run = Idle
    /\ alerts = <<>>
    /\ page_seen = FALSE

NextParse == Run

SpecParse == InitParse /\ [][NextParse]_vars

\* ----------------------------------------------------------------- claims

\* The last run loaded memory.json and went through the decision tree
ReachedComparator == run.step \in {"done", "raised"}

\* The kinds of the messages the last run handed to send_telegram
AlertKinds == {alerts[k].message.kind : k \in 1..Len(alerts)}

\* The row the scan accepts on a page that has one
AcceptedRow(pg) == pg[FindRow(pg)]

\* No row of the page has cells whose first cell satisfies the version predicate
NoRowMatches(pg) ==
    \A i \in 1..Len(pg) : pg[i] = <<>> \/ ~IsVersion(strip(pg[i][1]))

\* The row has an installed cell whose text int() rejects
InstalledMalformed(cols) ==
    Len(cols) >= 2 /\ int_or_0(replace_commas(strip(cols[2]))).raised

\* The row has an installed cell whose text converts to an integer
InstalledParses(cols) ==
    Len(cols) >= 2 /\ ~int_or_0(replace_commas(strip(cols[2]))).raised

InstalledValue(cols) == int_or_0(replace_commas(strip(cols[2]))).value

\* The pending cell is missing, empty, or holds something other than 0-9 digits
PendingDefaults(cols) ==
    \/ Len(cols) < 4
    \/ LET pending_text == replace_commas(strip(cols[4]))
       IN  pending_text = <<>> \/ \E i \in 1..Len(pending_text) : pending_text[i] \notin Decimals

\* C1: a run that reaches the comparator with the observed version equal to
\* the last_version it read and observed count C against the last_count C0 it
\* read hands exactly one wave message with diff = C - C0 to send_telegram when
\* C >= C0 + 5 (C = C0 + 5 included) and none when C < C0 + 5; either way the
\* persisted last_count is C afterwards and last_version is what it was.
C1_WaveThreshold ==
    (ReachedComparator /\ run.latest_version = run.last_version) =>
        /\ IF run.current_count >= run.last_count + 5
           THEN /\ Len(alerts) = 1
                /\ alerts[1].message = [kind |-> "wave", version |-> run.latest_version,
                                        n |-> run.current_count - run.last_count]
           ELSE alerts = <<>>
        /\ file_exists
        /\ file_data["last_count"] = run.current_count
        /\ file_data["last_version"] = run.last_version

\* C1's case: the boundary C = C0 + 5 raised a wave of size 5
C1_Witness ==
    /\ ReachedComparator
    /\ run.latest_version = run.last_version
    /\ run.current_count = run.last_count + 5
    /\ Len(alerts) = 1 /\ alerts[1].message.kind = "wave" /\ alerts[1].message.n = 5
    /\ file_data["last_count"] = run.current_count

\* C2: a run that reaches the comparator with an observed version V different
\* from the last_version it read (the default "None" of a first run included)
\* hands one new-build message and no wave message to send_telegram, whatever
\* the counts, and persists (last_version = V, last_count = C).
C2_NewBuildPriority ==
    (ReachedComparator /\ run.latest_version # run.last_version) =>
        /\ Len(alerts) = 1
        /\ alerts[1].message = [kind |-> "new_build", version |-> run.latest_version,
                                n |-> run.current_count]
        /\ file_exists
        /\ file_data["last_version"] = run.latest_version
        /\ file_data["last_count"] = run.current_count

\* C2's case: the version changed and the count also jumped by the threshold
C2_Witness ==
    /\ ReachedComparator
    /\ run.last_version \in Versions
    /\ run.latest_version # run.last_version
    /\ run.current_count >= run.last_count + 5
    /\ AlertKinds = {"new_build"}
    /\ file_data["last_version"] = run.latest_version

\* C3: a run that directly follows a run which fetched the same, unchanged
\* page hands nothing to send_telegram and leaves memory.json as that run
\* left it.
C3_Idempotent ==
    [][(page_seen /\ Run) =>
          (alerts' = <<>> /\ UNCHANGED <<file_exists, file_data>>)]_vars

\* C3's case: the second of two runs on a page whose first run alerted
C3_Witness ==
    /\ run.repeat
    /\ run.step = "done"
    /\ alerts = <<>>
    /\ alerted_count = run.current_count
    /\ run.current_count >= 5
    /\ file_data["last_count"] = run.current_count

\* C4: a run that leaves last_version as it read it never writes a last_count
\* smaller than the one it read.
C4_Monotonic ==
    (ReachedComparator /\ run.latest_version = run.last_version) =>
        file_data["last_count"] >= run.last_count

\* C5: a run whose fetch fails, or whose page has no row satisfying the
\* version predicate, hands nothing to send_telegram and leaves memory.json
\* as it was.
C5_AbortKeepsState ==
    [][\A fetch_ok \in BOOLEAN, has_token \in BOOLEAN, has_chat \in BOOLEAN,
          post_ok \in BOOLEAN :
          (/\ check_teslafi(fetch_ok, has_token, has_chat, post_ok)
           /\ (~fetch_ok \/ NoRowMatches(page)))
          => (alerts' = <<>> /\ UNCHANGED <<file_exists, file_data>>)]_vars

\* C5's case: a run found no version row while memory.json held a state
C5_Witness ==
    /\ run.step = "no_version"
    /\ file_exists
    /\ file_data["last_count"] > 0
    /\ alerts = <<>>

\* C6: whenever a run called send_telegram, whether the message was posted,
\* skipped for a missing credential or lost to a transport failure, nothing was
\* raised out of send_telegram and the run persisted the observed version and
\* count.
C6_PersistDespiteNotifier ==
    alerts # <<>> =>
        /\ alerts[1].result \in {"posted", "skipped", "failed"}
        /\ run.step = "done"
        /\ file_exists
        /\ file_data["last_version"] = run.latest_version
        /\ file_data["last_count"] = run.current_count

\* C6's case: the post failed and the new count is persisted all the same
C6_Witness ==
    /\ alerts # <<>>
    /\ alerts[1].result = "failed"
    /\ run.step = "done"
    /\ run.current_count # run.last_count
    /\ file_data["last_count"] = run.current_count

\* C7: when the accepted row's installed cell converts to an integer I and
\* its pending cell is missing, empty or not made of digits, the observed
\* count is I.
C7_PendingDefaultsToZero ==
    [][(/\ Run
        /\ run'.step = "done"
        /\ FindRow(page) # 0
        /\ InstalledParses(AcceptedRow(page))
        /\ PendingDefaults(AcceptedRow(page)))
       => run'.current_count = InstalledValue(AcceptedRow(page))]_vars

\* C8: when the accepted row's installed text does not convert to an integer
\* and the page is fetched, the run reaches the comparator with count 0 for the
\* accepted version, takes the branch the decision tree selects for
\* (version, 0), and persists (version, 0).
C8_MalformedInstalledIsZero ==
    [][\A has_token \in BOOLEAN, has_chat \in BOOLEAN, post_ok \in BOOLEAN :
          (/\ check_teslafi(TRUE, has_token, has_chat, post_ok)
           /\ FindRow(page) # 0
           /\ InstalledMalformed(AcceptedRow(page)))
          => LET v  == strip(AcceptedRow(page)[1])
                 lv == dict_get(load_memory, "last_version", NoneText)
                 lc == dict_get(load_memory, "last_count", 0)
             IN  /\ run'.step = "done"
                 /\ run'.latest_version = v
                 /\ run'.current_count = 0
                 /\ run'.scenario = IF v # lv THEN "new_build"
                                    ELSE IF 0 >= lc + 5 THEN "wave"
                                    ELSE "no_change"
                 /\ file_exists'
                 /\ file_data'["last_version"] = v
                 /\ file_data'["last_count"] = 0]_vars

\* C8's case: installed text rejected by int(), a pending cell of 1 that is
\* not added, and a persisted count of 11 replaced by 0
C8_Witness ==
    /\ FindRow(page) # 0
    /\ InstalledMalformed(AcceptedRow(page))
    /\ Len(AcceptedRow(page)) = 4
    /\ AcceptedRow(page)[4] = <<"1">>
    /\ run.step = "done"
    /\ run.last_count = 11
    /\ run.current_count = 0
    /\ file_data["last_count"] = 0

\* C9: when two successive runs reach the comparator with the same observed
\* version and the later count exceeds the earlier by less than 5, the later
\* run hands no wave message to send_telegram.
C9_SlidingBaseline ==
    [][(/\ Run
        /\ run.step = "done"
        /\ run'.step = "done"
        /\ run'.latest_version = run.latest_version
        /\ run'.current_count - run.current_count < 5)
       => (\A k \in 1..Len(alerts') : alerts'[k].message.kind # "wave")]_vars

\* C9's case: the count has grown by 5 or more since the last alert for this
\* version, in steps below 5, and the last run alerted nothing
C9_Witness ==
    /\ run.step = "done"
    /\ run.latest_version = run.last_version
    /\ run.current_count > run.last_count
    /\ run.current_count >= alerted_count + 5
    /\ alerts = <<>>
    /\ file_data["last_count"] = run.current_count

\* C10: the observed count is never negative, and so neither is the persisted
\* last_count.
C10_NonNegative ==
    /\ run.current_count >= 0
    /\ file_exists => file_data["last_count"] >= 0

====
